---- MODULE Spec2Model ----
(***************************************************************************)
(* Perishable-inventory simulation: the day transition (step_inventory),   *)
(* the episode runner (run_episode), the base-stock policies and the       *)
(* experiment harness, as state machines.                                  *)
(*                                                                         *)
(* Money is kept in hundredths (COST 0.05 is 5); every other quantity is   *)
(* an integer number of units, as in the source.                           *)
(***************************************************************************)
EXTENDS Integers, Sequences, FiniteSets, TLC

VARIABLES
    heap,       \* the list objects and InventoryState objects made so far, by address
    config,     \* the experiment configuration: demand model and policy
    cfg,        \* SimConfig of the episode (or the parameters of a direct call)
    seeds,      \* main: the parsed seed list
    seed_pos,   \* main: how many seeds are done
    out,        \* main: the lines of the output file
    rng,        \* the random streams: the demand generator's and run_episode's
    state,      \* the current InventoryState
    totals,     \* run_episode's totals dict
    t,          \* run_episode's loop index
    pc,         \* position in main / run_episode / the direct call
    result,     \* the EpisodeResult once returned
    last,       \* what the last loop iteration / call did (history variable)
    demand_log, \* demand of every day so far (history variable)
    order_log,  \* clamped order of every day so far (history variable)
    recv_log    \* quantity step_inventory received on every day so far (history variable)

vars == <<heap, config, cfg, seeds, seed_pos, out, rng, state, totals, t, pc, result, last,
          demand_log, order_log, recv_log>>

----------------------------------------------------------------------------
(* Bounds of the model *)

MaxHorizon == 3
MaxShelf == 3
MaxLead == 2

\* what the demand callable and the policy callable may return
Demands == {-1, 0, 4, 10}
Orders == {-1, 0, 1, 10}

----------------------------------------------------------------------------
(* Python helpers *)

Max(a, b) == IF a >= b THEN a ELSE b
Min(a, b) == IF a <= b THEN a ELSE b

RECURSIVE SumSeq(_)
SumSeq(s) == IF s = <<>> THEN 0 ELSE Head(s) + SumSeq(Tail(s))

\* s[1:]
PyTail(s) == IF s = <<>> THEN <<>> ELSE Tail(s)

\* s[-n:] for n > 0
LastN(s, n) == IF Len(s) <= n THEN s ELSE SubSeq(s, Len(s) - n + 1, Len(s))

\* [0 for _ in range(n)]
Zeros(n) == [i \in 1..Max(0, n) |-> 0]

----------------------------------------------------------------------------
(* inventory_sim.py *)

\* no object is tracked by address
NoHeap == [lists |-> <<>>, states |-> <<>>, snaps |-> <<>>]

HistoryCap == 365

DefaultCosts == [waste_cost |-> 100, stockout_cost |-> 300, holding_cost |-> 5]

on_hand_total(st) == SumSeq(st.on_hand_by_age)

NoMetrics ==
    [demand |-> 0, sold |-> 0, stockout |-> 0, wasted |-> 0, on_hand_end |-> 0,
     holding_cost |-> 0, waste_cost |-> 0, stockout_cost |-> 0]

\* Received with the lead-time branch forgotten: the order also arrives at once
Received_SameDay(st, order_qty, lead_time_days) ==
    (IF st.pipeline # <<>> THEN st.pipeline[1] ELSE 0) + Max(0, order_qty)

\* the quantity entering stock in a transition (step_inventory, lines 146-150)
Received(st, order_qty, lead_time_days) ==
    LET head == IF st.pipeline # <<>> THEN st.pipeline[1] ELSE 0
    IN  IF lead_time_days > 0 THEN head ELSE head + Max(0, order_qty)

\* NextPipeline without the clamp of the order
NextPipeline_NoClamp(st, order_qty, lead_time_days) ==
    IF lead_time_days > 0 THEN Append(PyTail(st.pipeline), order_qty) ELSE <<>>

\* the pipeline after the order is placed (lines 147-148, 181)
NextPipeline(st, order_qty, lead_time_days) ==
    IF lead_time_days > 0
    THEN Append(PyTail(st.pipeline), Max(0, order_qty))
    ELSE <<>>

\* Aged keeping the expired units on the shelf, merged into the next bucket
Aged_KeepExpired(on_hand_by_age) ==
    [Append(Tail(on_hand_by_age), 0) EXCEPT ![1] = @ + on_hand_by_age[1]]

\* drop the expired bucket, shift the others older (line 157)
Aged(on_hand_by_age) == Append(Tail(on_hand_by_age), 0)

\* add the receipt as freshest (line 160)
Stocked(aged, received) == [aged EXCEPT ![Len(aged)] = @ + received]

\* SellLoop serving the freshest bucket first
RECURSIVE SellLoop_FreshestFirst(_, _, _, _, _)
SellLoop_FreshestFirst(buckets, i, remaining_demand, sold, shelf_life_days) ==
    IF i > shelf_life_days
    THEN [on_hand_by_age |-> buckets, remaining_demand |-> remaining_demand, sold |-> sold]
    ELSE LET k == shelf_life_days - i + 1
             take == Min(buckets[k], remaining_demand)
         IN  SellLoop_FreshestFirst([buckets EXCEPT ![k] = @ - take], i + 1,
                                    remaining_demand - take, sold + take, shelf_life_days)

\* the selling loop (lines 163-170): oldest bucket first, break when demand is met
RECURSIVE SellLoop(_, _, _, _, _)
SellLoop(buckets, i, remaining_demand, sold, shelf_life_days) ==
    IF i > shelf_life_days
    THEN [on_hand_by_age |-> buckets, remaining_demand |-> remaining_demand, sold |-> sold]
    ELSE LET take == Min(buckets[i], remaining_demand)
             b2 == [buckets EXCEPT ![i] = @ - take]
             r2 == remaining_demand - take
         IN  IF r2 = 0
             THEN [on_hand_by_age |-> b2, remaining_demand |-> r2, sold |-> sold + take]
             ELSE SellLoop(b2, i + 1, r2, sold + take, shelf_life_days)

\* how step_inventory fails, if it does: the length check of line 154, then
\* the read of bucket 0 (line 156) of an empty list
StepError(st, shelf_life_days) ==
    IF Len(st.on_hand_by_age) # shelf_life_days THEN "ValueError"
    ELSE IF st.on_hand_by_age = <<>> THEN "IndexError"
    ELSE "none"

\* a call that raised after taking the head off the caller's own pipeline
Raised_PipelineConsumed(st, err) ==
    [err |-> err, state |-> [st EXCEPT !.pipeline = PyTail(@)], metrics |-> NoMetrics,
     received |-> 0, aged |-> <<>>]

\* a call that raised: nothing is returned and the input state is as it was
Raised(st, err) ==
    [err |-> err, state |-> st, metrics |-> NoMetrics, received |-> 0, aged |-> <<>>]

\* step_inventory serving the demand before aging: the expiring bucket is
\* offered for sale and only its rest is wasted
step_inventory_SellBeforeAging(st, demand, order_qty, shelf_life_days, lead_time_days, costs) ==
    IF StepError(st, shelf_life_days) # "none"
    THEN Raised(st, StepError(st, shelf_life_days))
    ELSE
    LET received == Received(st, order_qty, lead_time_days)
        sale == SellLoop(st.on_hand_by_age, 1, Max(0, demand), 0, shelf_life_days)
        wasted == sale.on_hand_by_age[1]
        aged == Aged(sale.on_hand_by_age)
        on_hand_by_age == Stocked(aged, received)
    IN  [err |-> "none",
         state |-> [day |-> st.day + 1, on_hand_by_age |-> on_hand_by_age,
                    pipeline |-> NextPipeline(st, order_qty, lead_time_days),
                    demand_history |-> LastN(Append(st.demand_history, demand), HistoryCap)],
         metrics |-> [demand |-> demand, sold |-> sale.sold,
                      stockout |-> sale.remaining_demand, wasted |-> wasted,
                      on_hand_end |-> SumSeq(on_hand_by_age),
                      holding_cost |-> costs.holding_cost * SumSeq(on_hand_by_age),
                      waste_cost |-> costs.waste_cost * wasted,
                      stockout_cost |-> costs.stockout_cost * sale.remaining_demand],
         received |-> received, aged |-> aged]

\* step_inventory keeping the unmet demand as negative stock (a backlog)
step_inventory_Backlog(st, demand, order_qty, shelf_life_days, lead_time_days, costs) ==
    IF StepError(st, shelf_life_days) # "none"
    THEN Raised(st, StepError(st, shelf_life_days))
    ELSE
    LET received == Received(st, order_qty, lead_time_days)
        wasted == st.on_hand_by_age[1]
        aged == Aged(st.on_hand_by_age)
        sale == SellLoop(Stocked(aged, received), 1, Max(0, demand), 0, shelf_life_days)
        on_hand_by_age == Stocked(sale.on_hand_by_age, 0 - sale.remaining_demand)
    IN  [err |-> "none",
         state |-> [day |-> st.day + 1, on_hand_by_age |-> on_hand_by_age,
                    pipeline |-> NextPipeline(st, order_qty, lead_time_days),
                    demand_history |-> LastN(Append(st.demand_history, demand), HistoryCap)],
         metrics |-> [demand |-> demand, sold |-> sale.sold,
                      stockout |-> sale.remaining_demand, wasted |-> wasted,
                      on_hand_end |-> SumSeq(on_hand_by_age),
                      holding_cost |-> costs.holding_cost * SumSeq(on_hand_by_age),
                      waste_cost |-> costs.waste_cost * wasted,
                      stockout_cost |-> costs.stockout_cost * sale.remaining_demand],
         received |-> received, aged |-> aged]

\* step_inventory: err is "none" when it returns; received and aged are its
\* locals, kept beside the returned pair (state, metrics)
step_inventory(st, demand, order_qty, shelf_life_days, lead_time_days, costs) ==
    IF StepError(st, shelf_life_days) # "none"
    THEN Raised(st, StepError(st, shelf_life_days))
    ELSE
    LET received == Received(st, order_qty, lead_time_days)
        wasted == st.on_hand_by_age[1]
        aged == Aged(st.on_hand_by_age)
        sale == SellLoop(Stocked(aged, received), 1, Max(0, demand), 0, shelf_life_days)
        on_hand_by_age == sale.on_hand_by_age
        stockout == sale.remaining_demand
    IN  [err |-> "none",
         state |-> [day |-> st.day + 1,
                    on_hand_by_age |-> on_hand_by_age,
                    pipeline |-> NextPipeline(st, order_qty, lead_time_days),
                    demand_history |-> LastN(Append(st.demand_history, demand), HistoryCap)],
         metrics |-> [demand |-> demand,
                      sold |-> sale.sold,
                      stockout |-> stockout,
                      wasted |-> wasted,
                      on_hand_end |-> SumSeq(on_hand_by_age),
                      holding_cost |-> costs.holding_cost * SumSeq(on_hand_by_age),
                      waste_cost |-> costs.waste_cost * wasted,
                      stockout_cost |-> costs.stockout_cost * stockout],
         received |-> received,
         aged |-> aged]

----------------------------------------------------------------------------
(* Floats.  A float is kept as an integer number of ten-thousandths (Unit);  *)
(* a probability as parts per million; the smoothing factor in thousandths. *)
(* On every history the model reaches, the policies below return the same   *)
(* order as the source does with its doubles.                               *)

Unit == 10000

\* floor of the square root (math.sqrt, to the precision of the caller)
RECURSIVE ISqrtBetween(_, _, _)
ISqrtBetween(n, lo, hi) ==
    IF lo >= hi THEN lo
    ELSE LET mid == (lo + hi + 1) \div 2
         IN  IF mid * mid <= n THEN ISqrtBetween(n, mid, hi)
             ELSE ISqrtBetween(n, lo, mid - 1)

ISqrt(n) == ISqrtBetween(n, 0, 46340)

\* round(x) of a float x kept in units of 1/unit: to nearest, ties to even
PyRound(x, unit) ==
    LET q == x \div unit
        r == x % unit
    IN  IF 2 * r < unit THEN q
        ELSE IF 2 * r > unit THEN q + 1
        ELSE IF q % 2 = 0 THEN q ELSE q + 1

\* int(x) of a float x kept in units of 1/unit: toward zero
PyInt(x, unit) == IF x >= 0 THEN x \div unit ELSE 0 - ((0 - x) \div unit)

\* inv_norm_cdf at the probabilities the model uses (parts per million), in
\* ten-thousandths: the values of lines 38-61 there
InvNormTable ==
    (1 :> -47534) @@ (1000 :> -30902) @@ (24249 :> -19730) @@ (24250 :> -19730) @@
    (24251 :> -19729) @@ (50000 :> -16449) @@ (250000 :> -6745) @@ (490000 :> -251) @@
    (500000 :> 0) @@ (510000 :> 251) @@ (750000 :> 6745) @@ (950000 :> 16449) @@
    (975749 :> 19729) @@ (975750 :> 19730) @@ (975751 :> 19730) @@ (990000 :> 23263) @@
    (999000 :> 30902) @@ (999999 :> 47534)

inv_norm_cdf(p) ==
    IF ~(0 < p /\ p < 1000000)
    THEN [err |-> "ValueError", z |-> 0]
    ELSE [err |-> "none", z |-> InvNormTable[p]]

\* the service level handed to inv_norm_cdf as it is
ClampedLevel_Unclamped(service_level) == service_level

\* min(0.999999, max(1e-6, service_level)) (line 68)
ClampedLevel(service_level) == Min(999999, Max(1, service_level))

\* approx_poisson_quantile without the floor at zero
approx_poisson_quantile_Unfloored(mu, service_level) ==
    LET m == Max(0, mu)
        z == inv_norm_cdf(ClampedLevel(service_level)).z
        root == ISqrt(m * 1600)
    IN  IF m = 0 THEN 0
        ELSE PyRound(m + ((z * root) \div 4000), Unit)

approx_poisson_quantile(mu, service_level) ==
    LET m == Max(0, mu)
        z == inv_norm_cdf(ClampedLevel(service_level)).z
        \* sqrt(m) in units of 1/4000
        root == ISqrt(m * 1600)
    IN  IF m = 0 THEN 0
        ELSE Max(0, PyRound(m + ((z * root) \div 4000), Unit))

\* the error a call of approx_poisson_quantile raises: inv_norm_cdf's, if any
approx_poisson_quantile_raises(mu, service_level) ==
    IF Max(0, mu) = 0 THEN "none"
    ELSE inv_norm_cdf(ClampedLevel(service_level)).err

\* random.Random(seed): a stream is its seed and how many draws were taken;
\* the draw at a position is a fixed function of both (7 values a draw)
NewRandom(seed) == [seed |-> seed, pos |-> 0]

Advance(r) == [r EXCEPT !.pos = @ + 1]

DrawIndex(r) == (((r.seed % 7) + r.pos * (1 + 2 * (r.seed % 3))) % 7) + 1

\* -ln(u) of the uniform draws u = 0.05, 0.2, 0.35, 0.5, 0.65, 0.8, 0.95
NegLogUniform == <<29957, 16094, 10498, 6931, 4308, 2231, 513>>

\* the standard normal draws behind rng.gauss
StdNormal == <<-15000, -7000, -2000, 0, 3000, 8000, 16000>>

\* rng.gauss(lam, math.sqrt(lam)) (line 28): one draw, sigma in thousandths
gauss(lam, r) ==
    LET sigma == ISqrt(lam * 100)
    IN  lam + ((StdNormal[DrawIndex(r)] * sigma) \div 1000)

\* Knuth's loop (lines 20-26): p > exp(-lam) is decided on the logarithms,
\* acc = -ln p < lam
RECURSIVE KnuthLoop(_, _, _, _)
KnuthLoop(lam, r, count, acc) ==
    IF acc < lam
    THEN KnuthLoop(lam, Advance(r), count + 1, acc + NegLogUniform[DrawIndex(r)])
    ELSE [value |-> count - 1, rng |-> r]

\* sample_poisson: the count and the stream after the draws
sample_poisson(lam, r) ==
    LET l == Max(0, lam)
    IN  IF l = 0 THEN [value |-> 0, rng |-> r]
        ELSE IF l < 50 * Unit THEN KnuthLoop(l, r, 0, 0)
        ELSE [value |-> Max(0, PyInt(gauss(l, r), Unit)), rng |-> Advance(r)]

\* service_level reading "no demand" as nothing served
service_level_NothingServed(res) ==
    IF res.total_demand <= 0 THEN 0
    ELSE 1000000 - ((res.total_stockout * 1000000) \div res.total_demand)

\* EpisodeResult.service_level and .waste_rate, in parts per million
service_level(res) ==
    IF res.total_demand <= 0 THEN 1000000
    ELSE 1000000 - ((res.total_stockout * 1000000) \div res.total_demand)

waste_rate(res) ==
    IF res.total_received <= 0 THEN 0
    ELSE (res.total_wasted * 1000000) \div res.total_received

----------------------------------------------------------------------------
(* policies.py *)

\* mean taking an empty history for one unit a day
mean_EmptyIsOne(xs) == IF xs = <<>> THEN Unit ELSE (SumSeq(xs) * Unit) \div Len(xs)

mean(xs) == IF xs = <<>> THEN 0 ELSE (SumSeq(xs) * Unit) \div Len(xs)

RECURSIVE EwmaFrom(_, _, _, _)
EwmaFrom(xs, i, m, alpha) ==
    IF i > Len(xs) THEN m
    ELSE EwmaFrom(xs, i + 1, (alpha * xs[i] * Unit + (1000 - alpha) * m) \div 1000, alpha)

ewma(xs, alpha) ==
    IF xs = <<>> THEN 0
    ELSE EwmaFrom(xs, 2, xs[1] * Unit, Max(0, Min(1000, alpha)))

DefaultPolicyConfig ==
    [service_level_target |-> 950000, history_window |-> 28,
     ewma_alpha |-> 200, residual_window |-> 60]

\* the base-stock rule without the floor at zero
base_stock_order_qty_Unfloored(st, target_stock) ==
    target_stock - (on_hand_total(st) + SumSeq(st.pipeline))

\* _base_stock_order_qty
base_stock_order_qty(st, target_stock) ==
    LET position == on_hand_total(st) + SumSeq(st.pipeline)
    IN  Max(0, target_stock - position)

\* the forecast targets of the three policies
ma_target(st, c) ==
    approx_poisson_quantile(mean(LastN(st.demand_history, Max(1, c.history_window))),
                            c.service_level_target)

ewma_target(st, c) ==
    approx_poisson_quantile(ewma(LastN(st.demand_history, Max(2, c.history_window)),
                                 c.ewma_alpha),
                            c.service_level_target)

\* insertion of x into a sorted sequence, and sorted(xs)
RECURSIVE Insert(_, _)
Insert(x, s) ==
    IF s = <<>> THEN <<x>>
    ELSE IF x <= Head(s) THEN <<x>> \o s
    ELSE <<Head(s)>> \o Insert(x, Tail(s))

RECURSIVE Sorted(_)
Sorted(xs) == IF xs = <<>> THEN <<>> ELSE Insert(Head(xs), Sorted(Tail(xs)))

\* the residuals with the first day's forecast taken as 0 instead of skipped
Residuals_FromFirstDay(hist, window, resid_window, alpha) ==
    LET start == Max(0, Len(hist) - resid_window)
        first == start
        n == Max(0, Len(hist) - first)
    IN  [k \in 1..n |->
            LET i == first + k - 1
                past == SubSeq(hist, Max(0, i - window) + 1, i)
            IN  hist[i + 1] * Unit - ewma(past, alpha)]

\* the residuals of cq_base_stock (lines 65-73); i is the 0-based index of the day
Residuals(hist, window, resid_window, alpha) ==
    LET start == Max(0, Len(hist) - resid_window)
        first == Max(start, 1)
        n == Max(0, Len(hist) - first)
    IN  [k \in 1..n |->
            LET i == first + k - 1
                past == SubSeq(hist, Max(0, i - window) + 1, i)
            IN  hist[i + 1] * Unit - ewma(past, alpha)]

cq_target(st, c) ==
    LET hist == st.demand_history
        window == Max(5, c.history_window)
        resid_window == Max(10, c.residual_window)
        mu == ewma(LastN(hist, window), c.ewma_alpha)
        resids == Residuals(hist, window, resid_window, c.ewma_alpha)
        q == Min(999000, Max(1000, c.service_level_target))
        n == Len(resids)
        \* ceil(q * n) - 1, clamped into the list
        idx == Max(0, Min(n - 1, ((q * n + 999999) \div 1000000) - 1))
        adj == Sorted(resids)[idx + 1]
    IN  IF resids = <<>>
        THEN approx_poisson_quantile(mu, c.service_level_target)
        ELSE approx_poisson_quantile(Max(0, mu + adj), c.service_level_target)

baseline_ma_base_stock(st, c) == base_stock_order_qty(st, ma_target(st, c))

baseline_ewma_base_stock(st, c) == base_stock_order_qty(st, ewma_target(st, c))

cq_base_stock(st, c) == base_stock_order_qty(st, cq_target(st, c))

PolicyNames == {"baseline_ma_base_stock", "baseline_ewma_base_stock", "cq_base_stock"}


----------------------------------------------------------------------------
(* inventory_sim.py: run_episode *)

\* run_episode's initial state (lines 205-210)
InitialState(c) ==
    [day |-> 0,
     on_hand_by_age |-> Zeros(c.shelf_life_days),
     pipeline |-> IF c.lead_time_days > 0 THEN Zeros(c.lead_time_days) ELSE <<>>,
     demand_history |-> <<>>]

\* run_episode's totals (lines 212-219)
ZeroTotals ==
    [demand |-> 0, sold |-> 0, stockout |-> 0, wasted |-> 0, received |-> 0, cost |-> 0]

\* run_episode's receipt count adding the order as the policy returned it
PreReceived_Unclamped(st, order_qty, c) ==
    LET head == IF st.pipeline # <<>> THEN st.pipeline[1] ELSE 0
    IN  IF c.lead_time_days = 0 THEN head + order_qty ELSE head

\* run_episode's own receipt count (lines 224-226)
PreReceived(st, order_qty, c) ==
    LET head == IF st.pipeline # <<>> THEN st.pipeline[1] ELSE 0
    IN  IF c.lead_time_days = 0 THEN head + Max(0, order_qty) ELSE head

\* PolicyInput with the day's demand already in the history
PolicyInput_SeesDemand(st, demand) ==
    [st EXCEPT !.demand_history = Append(@, demand)]

\* the state run_episode hands to policy_fn (line 223)
PolicyInput(st, demand) == st

\* the totals without the holding cost of the day
Accumulate_NoHoldingCost(tot, m, pre_received) ==
    [demand |-> tot.demand + m.demand,
     sold |-> tot.sold + m.sold,
     stockout |-> tot.stockout + m.stockout,
     wasted |-> tot.wasted + m.wasted,
     received |-> tot.received + pre_received,
     cost |-> tot.cost + m.waste_cost + m.stockout_cost]

\* lines 237-242
Accumulate(tot, m, pre_received) ==
    [demand |-> tot.demand + m.demand,
     sold |-> tot.sold + m.sold,
     stockout |-> tot.stockout + m.stockout,
     wasted |-> tot.wasted + m.wasted,
     received |-> tot.received + pre_received,
     cost |-> tot.cost + m.holding_cost + m.waste_cost + m.stockout_cost]

\* lines 248-255
EpisodeResult(tot) ==
    [total_demand |-> tot.demand, total_sold |-> tot.sold,
     total_stockout |-> tot.stockout, total_wasted |-> tot.wasted,
     total_received |-> tot.received, total_cost |-> tot.cost]

NoResult == EpisodeResult(ZeroTotals)

NoLast ==
    [acted |-> FALSE, pre |-> InitialState([shelf_life_days |-> 0, lead_time_days |-> 0]),
     demand |-> 0, order |-> 0, order_qty |-> 0,
     policy_arg |-> InitialState([shelf_life_days |-> 0, lead_time_days |-> 0]),
     policy_calls |-> 0, pre_received |-> 0,
     step |-> Raised(InitialState([shelf_life_days |-> 0, lead_time_days |-> 0]), "none")]

\* the loop body leaving the first warmup_days days out of the totals
LoopBody_SkipWarmup(demand, order_qty, gen) ==
    LET pre_received == PreReceived(state, order_qty, cfg)
        r == step_inventory(state, demand, order_qty,
                            cfg.shelf_life_days, cfg.lead_time_days, cfg.costs)
    IN  /\ last' = [acted |-> TRUE, pre |-> state, demand |-> demand,
                    order |-> Max(0, order_qty), order_qty |-> order_qty,
                    policy_arg |-> PolicyInput(state, demand),
                    policy_calls |-> last.policy_calls + 1,
                    pre_received |-> pre_received, step |-> r]
        /\ IF r.err = "none"
           THEN /\ state' = r.state
                /\ totals' = IF t < cfg.warmup_days THEN totals
                             ELSE Accumulate(totals, r.metrics, pre_received)
                /\ t' = t + 1
                /\ demand_log' = Append(demand_log, demand)
                /\ order_log' = Append(order_log, Max(0, order_qty))
                /\ recv_log' = Append(recv_log, r.received)
                /\ rng' = [gen |-> gen, episode |-> Advance(rng.episode)]
                /\ pc' = pc
           ELSE /\ pc' = "raised"
                /\ rng' = [rng EXCEPT !.gen = gen]
                /\ UNCHANGED <<state, totals, t, demand_log, order_log, recv_log>>
        /\ UNCHANGED <<heap, config, cfg, seeds, seed_pos, out, result>>

\* one iteration of run_episode's loop (lines 221-245) with the demand and the
\* order the two callables return, and the generator's stream after the call
LoopBody(demand, order_qty, gen) ==
    LET pre_received == PreReceived(state, order_qty, cfg)
        r == step_inventory(state, demand, order_qty,
                            cfg.shelf_life_days, cfg.lead_time_days, cfg.costs)
    IN  /\ last' = [acted |-> TRUE, pre |-> state, demand |-> demand,
                    order |-> Max(0, order_qty), order_qty |-> order_qty,
                    policy_arg |-> PolicyInput(state, demand),
                    policy_calls |-> last.policy_calls + 1,
                    pre_received |-> pre_received, step |-> r]
        /\ IF r.err = "none"
           THEN /\ state' = r.state
                /\ totals' = Accumulate(totals, r.metrics, pre_received)
                /\ t' = t + 1
                /\ demand_log' = Append(demand_log, demand)
                /\ order_log' = Append(order_log, Max(0, order_qty))
                /\ recv_log' = Append(recv_log, r.received)
                /\ rng' = [gen |-> gen, episode |-> Advance(rng.episode)]
                /\ pc' = pc
           ELSE /\ pc' = "raised"
                /\ rng' = [rng EXCEPT !.gen = gen]
                /\ UNCHANGED <<state, totals, t, demand_log, order_log, recv_log>>
        /\ UNCHANGED <<heap, config, cfg, seeds, seed_pos, out, result>>

\* an episode started on the state the one before it left behind
StartEpisode_KeepState(seed, gen) ==
    /\ rng' = [gen |-> gen, episode |-> NewRandom(seed)]
    /\ state' = state
    /\ totals' = ZeroTotals
    /\ t' = 0
    /\ last' = NoLast
    /\ demand_log' = <<>>
    /\ order_log' = <<>>
    /\ recv_log' = <<>>

\* the start of run_episode (lines 204-219)
StartEpisode(seed, gen) ==
    /\ rng' = [gen |-> gen, episode |-> NewRandom(seed)]
    /\ state' = InitialState(cfg)
    /\ totals' = ZeroTotals
    /\ t' = 0
    /\ last' = NoLast
    /\ demand_log' = <<>>
    /\ order_log' = <<>>
    /\ recv_log' = <<>>

----------------------------------------------------------------------------
(* run_experiment.py *)

\* parts of the JSON configuration
DriftModels ==
    {[type |-> "poisson_drift", lambda_start |-> 2, lambda_end |-> 4],
     [type |-> "poisson_drift", lambda_start |-> 0, lambda_end |-> 0],
     [type |-> "poisson_drift", lambda_start |-> 50, lambda_end |-> 52]}

\* "poisson" is what an absent type defaults to (line 27)
DemandModels == DriftModels \cup {[type |-> "poisson", lambda_start |-> 2, lambda_end |-> 4]}

PolicyConfigs ==
    {DefaultPolicyConfig,
     [service_level_target |-> 500000, history_window |-> 1,
      ewma_alpha |-> 200, residual_window |-> 60],
     [service_level_target |-> 50000, history_window |-> 2,
      ewma_alpha |-> 500, residual_window |-> 60]}

PolicySettings(names) ==
    {[name |-> n, pcfg |-> c] : n \in names, c \in PolicyConfigs}

\* policy parameters a configuration file may also hold: a history window of
\* 0, a service level of 1.5
MalformedPolicyConfigs ==
    {[DefaultPolicyConfig EXCEPT !.history_window = 0],
     [DefaultPolicyConfig EXCEPT !.service_level_target = 1500000]}

\* what stands for callables handed to run_episode directly
CallableConfig ==
    [demand_model |-> [type |-> "callable", lambda_start |-> 0, lambda_end |-> 0],
     policy |-> [name |-> "callable", pcfg |-> DefaultPolicyConfig]]

\* sin(2 pi k / 7), k = 0..6
WeekSine == <<0, 7818, 9749, 4339, -4339, -9749, -7818>>

\* the rate of day t (lines 39-42)
DriftRate(dm, horizon, day) ==
    LET frac == IF horizon <= 1 THEN 0
                ELSE Min(Unit, Max(0, (day * Unit) \div (horizon - 1)))
        lam == dm.lambda_start * Unit + (dm.lambda_end - dm.lambda_start) * frac
        bump == (15 * WeekSine[(day % 7) + 1]) \div 100
    IN  lam + ((lam * bump) \div Unit)

\* the generator's stream as kept from an earlier build for the same seed
GeneratorRng_Shared(seed) ==
    IF rng.gen.seed = seed + 1337 THEN rng.gen ELSE NewRandom(seed + 1337)

\* the generator's own stream (line 36)
GeneratorRng(seed) == NewRandom(seed + 1337)

\* build_demand_fn: the error, or the generator's fresh stream
build_demand_fn(dm, seed) ==
    IF dm.type = "poisson_drift"
    THEN [err |-> "none", rng |-> GeneratorRng(seed)]
    ELSE [err |-> "ValueError", rng |-> rng.gen]

\* the generator fn(t) (lines 38-43)
DemandFn(dm, horizon, day, r) == sample_poisson(DriftRate(dm, horizon, day), r)

\* build_policy_fn: the error, if any
build_policy_fn(pol) ==
    IF pol.name \in PolicyNames THEN "none" ELSE "ValueError"

\* the closure build_policy_fn returns (lines 60-65)
PolicyFn(pol, st) ==
    CASE pol.name = "baseline_ma_base_stock" -> baseline_ma_base_stock(st, pol.pcfg)
      [] pol.name = "baseline_ewma_base_stock" -> baseline_ewma_base_stock(st, pol.pcfg)
      [] pol.name = "cq_base_stock" -> cq_base_stock(st, pol.pcfg)

\* summarize (lines 70-80)
summarize(res) ==
    [total_demand |-> res.total_demand, total_sold |-> res.total_sold,
     total_stockout |-> res.total_stockout, total_wasted |-> res.total_wasted,
     total_received |-> res.total_received,
     service_level |-> service_level(res), waste_rate |-> waste_rate(res),
     total_cost |-> res.total_cost]

\* one line of the output file (lines 115-121)
OutputRecord(seed, res) ==
    [seed |-> seed, config |-> config, sim_cfg |-> cfg, metrics |-> summarize(res)]

\* a line of an earlier run found in the output file
OldLine == [seed |-> -1, config |-> config, sim_cfg |-> cfg, metrics |-> summarize(NoResult)]

IdleRng == [gen |-> NewRandom(0), episode |-> NewRandom(0)]

----------------------------------------------------------------------------
(* Spec: run_episode called with arbitrary demand and policy callables *)

SimConfigs ==
    [horizon_days : {0, MaxHorizon}, warmup_days : {0},
     shelf_life_days : -1..MaxShelf, lead_time_days : -1..MaxLead,
     costs : {DefaultCosts}]

\* configurations whose shelf life and lead time the data model allows
ValidSimConfigs ==
    {c \in SimConfigs : /\ c.horizon_days > 0
                        /\ c.shelf_life_days >= 1
                        /\ c.lead_time_days >= 0}

\* the state as run_episode sets out (lines 204-219), harness idle
EpisodeStart ==
    /\ seeds = <<>>
    /\ seed_pos = 0
    /\ out = <<>>
    /\ rng = IdleRng
    /\ heap = NoHeap
    /\ state = InitialState(cfg)
    /\ totals = ZeroTotals
    /\ t = 0
    /\ result = NoResult
    /\ last = NoLast
    /\ demand_log = <<>>
    /\ order_log = <<>>
    /\ recv_log = <<>>

Init ==
    /\ config = CallableConfig
    /\ cfg \in SimConfigs
    /\ pc = "loop"
    /\ EpisodeStart

Day ==
    /\ pc = "loop"
    /\ t < cfg.horizon_days
    /\ \E demand \in Demands, order_qty \in Orders : LoopBody(demand, order_qty, rng.gen)

Return ==
    /\ pc = "loop"
    /\ t >= cfg.horizon_days
    /\ result' = EpisodeResult(totals)
    /\ pc' = "done"
    /\ UNCHANGED <<heap, config, cfg, seeds, seed_pos, out, rng, state, totals, t, last,
                   demand_log, order_log, recv_log>>

Next == Day \/ Return

Spec == Init /\ [][Next]_vars

----------------------------------------------------------------------------
(* SpecPolicy: run_episode with one of the three policies and an arbitrary *)
(* demand callable                                                         *)

InitPolicy ==
    /\ config \in [demand_model : {CallableConfig.demand_model},
                   policy : PolicySettings(PolicyNames)]
    /\ cfg \in ValidSimConfigs
    /\ pc = "loop"
    /\ EpisodeStart

DayPolicy ==
    /\ pc = "loop"
    /\ t < cfg.horizon_days
    /\ \E demand \in Demands :
           LoopBody(demand, PolicyFn(config.policy, PolicyInput(state, demand)), rng.gen)

NextPolicy == DayPolicy \/ Return

SpecPolicy == InitPolicy /\ [][NextPolicy]_vars

----------------------------------------------------------------------------
(* SpecMain: main of run_experiment.py, one episode a seed *)

MaxSeeds == 2

Seeds == {0, 1}

SeqsUpTo(S, n) == UNION {[1..j -> S] : j \in 0..n}

InitMain ==
    /\ config \in [demand_model : DemandModels,
                   policy : PolicySettings(PolicyNames)
                            \cup {[name |-> "unknown_policy", pcfg |-> DefaultPolicyConfig]}
                            \cup {[name |-> "baseline_ma_base_stock", pcfg |-> c] :
                                      c \in MalformedPolicyConfigs}]
    /\ cfg \in {c \in SimConfigs : /\ c.shelf_life_days >= 0
                                   /\ c.lead_time_days >= 0}
    /\ seeds \in SeqsUpTo(Seeds, MaxSeeds)
    /\ seed_pos = 0
    /\ out = <<OldLine>>
    /\ rng = IdleRng
    /\ heap = NoHeap
    /\ state = InitialState(cfg)
    /\ totals = ZeroTotals
    /\ t = 0
    /\ pc = "main"
    /\ result = NoResult
    /\ last = NoLast
    /\ demand_log = <<>>
    /\ order_log = <<>>
    /\ recv_log = <<>>

episode == <<state, totals, t, result, last, demand_log, order_log, recv_log>>

\* lines 105-109: the policy is built, the seeds are parsed
BuildPolicy ==
    /\ pc = "main"
    /\ pc' = IF build_policy_fn(config.policy) = "none" THEN "open" ELSE "failed"
    /\ UNCHANGED <<heap, config, cfg, seeds, seed_pos, out, rng, episode>>

\* the output file opened for appending: what it held stays
OpenOutput_Append ==
    /\ pc = "open"
    /\ out' = out
    /\ pc' = "seed"
    /\ UNCHANGED <<heap, config, cfg, seeds, seed_pos, rng, episode>>

\* line 111: the output file is opened for writing, which empties it
OpenOutput ==
    /\ pc = "open"
    /\ out' = <<>>
    /\ pc' = "seed"
    /\ UNCHANGED <<heap, config, cfg, seeds, seed_pos, rng, episode>>

\* lines 112-114: the next seed's generator is built and its episode set out
NextSeed ==
    /\ pc = "seed"
    /\ seed_pos < Len(seeds)
    /\ LET b == build_demand_fn(config.demand_model, seeds[seed_pos + 1])
       IN  IF b.err = "none"
           THEN /\ StartEpisode(seeds[seed_pos + 1], b.rng)
                /\ pc' = "loop"
                /\ UNCHANGED <<heap, config, cfg, seeds, seed_pos, out, result>>
           ELSE /\ pc' = "failed"
                /\ UNCHANGED <<heap, config, cfg, seeds, seed_pos, out, rng, episode>>

\* one day of the seed's episode: the generator's demand, the policy's order
DayMain ==
    /\ pc = "loop"
    /\ t < cfg.horizon_days
    /\ LET d == DemandFn(config.demand_model, cfg.horizon_days, t, rng.gen)
       IN  LoopBody(d.value, PolicyFn(config.policy, PolicyInput(state, d.value)), d.rng)

\* a record written for whatever the episode had totalled, also when it raised
WriteRecord_AlsoAfterRaise ==
    /\ pc \in {"loop", "raised"}
    /\ pc = "loop" => t >= cfg.horizon_days
    /\ result' = EpisodeResult(totals)
    /\ out' = Append(out, OutputRecord(seeds[seed_pos + 1], EpisodeResult(totals)))
    /\ seed_pos' = seed_pos + 1
    /\ pc' = "seed"
    /\ UNCHANGED <<heap, config, cfg, seeds, rng, state, totals, t, last,
                   demand_log, order_log, recv_log>>

\* lines 114-121: the episode returns and its record is written
WriteRecord ==
    /\ pc = "loop"
    /\ t >= cfg.horizon_days
    /\ result' = EpisodeResult(totals)
    /\ out' = Append(out, OutputRecord(seeds[seed_pos + 1], EpisodeResult(totals)))
    /\ seed_pos' = seed_pos + 1
    /\ pc' = "seed"
    /\ UNCHANGED <<heap, config, cfg, seeds, rng, state, totals, t, last,
                   demand_log, order_log, recv_log>>

\* lines 123-124
Exit ==
    /\ pc = "seed"
    /\ seed_pos >= Len(seeds)
    /\ pc' = "exit"
    /\ UNCHANGED <<heap, config, cfg, seeds, seed_pos, out, rng, episode>>

NextMain == BuildPolicy \/ OpenOutput \/ NextSeed \/ DayMain \/ WriteRecord \/ Exit

SpecMain == InitMain /\ [][NextMain]_vars

----------------------------------------------------------------------------
(* SpecStep: step_inventory called directly on any state *)

\* quantities a caller's state may hold, on the shelf and in the pipeline
Quantities == {0, 1, 5}
Arrivals == {0, 5}

InitStep ==
    /\ config = CallableConfig
    /\ \E on_hand \in SeqsUpTo(Quantities, MaxShelf), pipeline \in SeqsUpTo(Arrivals, MaxLead) :
           /\ state = [day |-> 0, on_hand_by_age |-> on_hand, pipeline |-> pipeline,
                       demand_history |-> <<>>]
           /\ cfg \in [horizon_days : {1}, warmup_days : {0},
                       shelf_life_days : {Len(on_hand), Len(on_hand) + 1},
                       lead_time_days : -1..MaxLead,
                       costs : {DefaultCosts}]
    /\ seeds = <<>>
    /\ seed_pos = 0
    /\ out = <<>>
    /\ rng = IdleRng
    /\ heap = NoHeap
    /\ totals = ZeroTotals
    /\ t = 0
    /\ pc = "call"
    /\ result = NoResult
    /\ last = NoLast
    /\ demand_log = <<>>
    /\ order_log = <<>>
    /\ recv_log = <<>>

CallStep ==
    /\ pc = "call"
    /\ \E demand \in Demands, order_qty \in Orders :
           LET r == step_inventory(state, demand, order_qty,
                                   cfg.shelf_life_days, cfg.lead_time_days, cfg.costs)
           IN  /\ last' = [NoLast EXCEPT !.acted = TRUE, !.pre = state, !.demand = demand,
                                         !.order = Max(0, order_qty), !.order_qty = order_qty,
                                         !.step = r]
               /\ state' = r.state
               /\ pc' = IF r.err = "none" THEN "returned" ELSE "raised"
    /\ UNCHANGED <<heap, config, cfg, seeds, seed_pos, out, rng, totals, t, result,
                   demand_log, order_log, recv_log>>

NextStep == CallStep

SpecStep == InitStep /\ [][NextStep]_vars

\* C1: conservation in every call of step_inventory that returns, whatever the
\* state (with shelf_life_days buckets), demand, order and lead time:
\* wasted + sold + on_hand_end = sum of the old buckets + received, received
\* being what the call added to the freshest bucket: the old pipeline head when
\* the lead time is > 0, the clamped order when it is 0
C1_Conservation ==
    pc = "returned" =>
        LET m == last.step.metrics
            pre == last.pre
            after == last.step.state.on_hand_by_age
        IN  /\ m.wasted + m.sold + m.on_hand_end = SumSeq(pre.on_hand_by_age) + last.step.received
            /\ m.on_hand_end = SumSeq(after)
            /\ (cfg.lead_time_days > 0 /\ pre.pipeline # <<>>)
                   => last.step.received = pre.pipeline[1]
            /\ (cfg.lead_time_days = 0 /\ pre.pipeline = <<>>)
                   => last.step.received = last.order

C1_Witness ==
    /\ pc = "returned"
    /\ cfg.lead_time_days = 2
    /\ last.pre.on_hand_by_age = <<1, 5, 0>>
    /\ last.pre.pipeline = <<5, 0>>
    /\ last.demand = 4
    /\ last.step.metrics.wasted = 1
    /\ last.step.metrics.sold = 4
    /\ last.step.metrics.on_hand_end = 6

----------------------------------------------------------------------------
(* Properties of the transition inside an episode *)

\* the last loop iteration ran a transition that returned
Transition == last.acted /\ last.step.err = "none"

\* stock on the shelf after aging and receipt, bucket by bucket
BeforeSale ==
    LET pre == last.pre.on_hand_by_age
        n == Len(pre)
    IN  [i \in 1..n |-> IF i < n THEN pre[i + 1] ELSE last.step.received]

\* C2: in every state reachable in run_episode (shelf life and lead time being
\* lengths, i.e. not negative), on_hand_by_age has shelf_life_days entries, the
\* pipeline has lead_time_days entries, and every entry is a non-negative
\* integer, whatever the demands and the orders
C2_StateShape ==
    (cfg.shelf_life_days >= 0 /\ cfg.lead_time_days >= 0) =>
        /\ Len(state.on_hand_by_age) = cfg.shelf_life_days
        /\ Len(state.pipeline) = cfg.lead_time_days
        /\ \A i \in 1..Len(state.on_hand_by_age) : state.on_hand_by_age[i] \in Nat
        /\ \A i \in 1..Len(state.pipeline) : state.pipeline[i] \in Nat

C2_Witness ==
    /\ t = 3 /\ cfg.shelf_life_days = 3 /\ cfg.lead_time_days = 2
    /\ state.pipeline = <<10, 0>>
    /\ state.on_hand_by_age = <<0, 0, 1>>
    /\ \E i \in 1..Len(demand_log) : demand_log[i] < 0

\* C3: demand is served from the buckets left after aging and receipt, oldest
\* first: sold = min(max(0, demand), stock after aging and receipt); a bucket
\* is decremented only if every older bucket ends empty; a stockout leaves no
\* stock. The trace shelf life 3, lead time 0, order 10, demands 4, 10, 0 gives
\* sold 4 / on hand 6, then sold 6 / stockout 4, then empty buckets.
C3_OldestFirst ==
    Transition =>
        LET m == last.step.metrics
            after == last.step.state.on_hand_by_age
            TraceCfg == cfg.shelf_life_days = 3 /\ cfg.lead_time_days = 0
        IN  /\ m.sold = Min(Max(0, last.demand), SumSeq(BeforeSale))
            /\ \A i \in 1..Len(after) :
                   /\ after[i] <= BeforeSale[i]
                   /\ after[i] < BeforeSale[i] => \A j \in 1..(i - 1) : after[j] = 0
            /\ m.stockout > 0 => (m.on_hand_end = 0 /\ SumSeq(after) = 0)
            /\ (TraceCfg /\ order_log = <<10>> /\ demand_log = <<4>>)
                   => (m.sold = 4 /\ m.on_hand_end = 6)
            /\ (TraceCfg /\ order_log = <<10, 0>> /\ demand_log = <<4, 10>>)
                   => (m.sold = 6 /\ m.stockout = 4)
            /\ (TraceCfg /\ order_log = <<10, 0, 0>> /\ demand_log = <<4, 10, 0>>)
                   => (after = <<0, 0, 0>> /\ m.sold = 0)

C3_Witness ==
    /\ Transition
    /\ cfg.shelf_life_days = 3 /\ cfg.lead_time_days = 0
    /\ order_log = <<10, 0, 0>> /\ demand_log = <<4, 10, 0>>
    /\ totals.sold = 10 /\ totals.stockout = 4

\* C4: aging precedes receipt and sale: wasted is exactly the old bucket 0,
\* whatever the demand and the order (also in a stockout), none of it is sold,
\* and the other buckets move one index toward 0 unchanged before the receipt
\* is added to the last index
C4_AgingFirst ==
    Transition =>
        LET pre == last.pre.on_hand_by_age
            m == last.step.metrics
            after == last.step.state.on_hand_by_age
        IN  /\ m.wasted = pre[1]
            /\ m.sold <= SumSeq(pre) - pre[1] + last.step.received
            /\ last.step.aged = Append(Tail(pre), 0)
            /\ \A i \in 1..(Len(pre) - 1) : after[i] <= pre[i + 1]
            /\ after[Len(pre)] <= last.step.received

C4_Witness ==
    /\ Transition
    /\ cfg.shelf_life_days = 2
    /\ last.pre.on_hand_by_age = <<6, 1>>
    /\ last.step.metrics.wasted = 6
    /\ last.step.metrics.sold = 2
    /\ last.step.metrics.stockout = 8

\* C5: with lead time L > 0 the clamped order of day t enters the freshest
\* bucket exactly in the transition of day t + L, orders arriving in the order
\* placed (so nothing is received during the first L days); with L = 0 it
\* enters in the transition of day t itself
C5_LeadTimeDelivery ==
    (cfg.lead_time_days >= 0 /\ pc # "raised") =>
        LET L == cfg.lead_time_days
        IN  /\ Len(recv_log) = t /\ Len(order_log) = t
            /\ \A i \in 1..t :
                   recv_log[i] = IF L = 0 THEN order_log[i]
                                 ELSE IF i <= L THEN 0 ELSE order_log[i - L]
            /\ Len(state.pipeline) = L
            /\ \A k \in 1..L :
                   state.pipeline[k] = IF t - L + k >= 1 THEN order_log[t - L + k] ELSE 0

C5_Witness ==
    /\ cfg.lead_time_days = 1
    /\ order_log = <<1, 10, 0>>
    /\ recv_log = <<0, 1, 10>>

\* C8: on every day t the policy is called exactly once, before the transition
\* of day t, with the state the previous transition produced: its day is t, its
\* history holds the demands of the days before t only (the last 365), and its
\* stock is the stock before the day's receipt
C8_DecisionBeforeRealization ==
    [][ t' = t + 1 =>
          /\ last'.policy_arg = state
          /\ last'.pre = state
          /\ last'.step.state = state'
          /\ last.policy_calls = t /\ last'.policy_calls = t + 1
          /\ last'.policy_arg.day = t
          /\ Len(demand_log) = t
          /\ last'.policy_arg.demand_history = LastN(demand_log, 365)
          /\ last'.policy_arg.on_hand_by_age = state.on_hand_by_age ]_vars

C8_Witness ==
    /\ Transition
    /\ t = 3
    /\ last.policy_calls = 3
    /\ last.policy_arg.day = 2
    /\ last.policy_arg.demand_history = <<4, 10>>
    /\ last.demand = 4
    /\ last.step.received = 10

\* C9: on every day the runner's pre_received equals the quantity the
\* transition added to the freshest bucket, so total_received is the sum of
\* the daily receipts, for every configuration on which the episode completes
C9_ReceivedAccounting ==
    /\ Transition => last.pre_received = last.step.received
    /\ pc = "done" => result.total_received = SumSeq(recv_log)

\* C6: unmet demand is lost: from the same state with the same order, any two
\* demands at or above the stock available for sale leave the same (empty)
\* buckets and the same pipeline, the next states differing only in the
\* appended history entry; a day's sold and stockout add up to that day's
\* demand alone
C6_LostSales ==
    /\ (pc = "loop" /\ t < cfg.horizon_days /\ cfg.shelf_life_days >= 1) =>
           \A o \in Orders : \A d1, d2 \in Demands :
               LET r1 == step_inventory(state, d1, o, cfg.shelf_life_days,
                                        cfg.lead_time_days, cfg.costs)
                   r2 == step_inventory(state, d2, o, cfg.shelf_life_days,
                                        cfg.lead_time_days, cfg.costs)
                   avail == SumSeq(state.on_hand_by_age) - state.on_hand_by_age[1]
                            + r1.received
               IN  (d1 >= avail /\ d2 >= avail) =>
                       /\ r1.state.on_hand_by_age = Zeros(cfg.shelf_life_days)
                       /\ r2.state.on_hand_by_age = r1.state.on_hand_by_age
                       /\ r2.state.pipeline = r1.state.pipeline
                       /\ r2.state.day = r1.state.day
                       /\ r1.state.demand_history = LastN(Append(state.demand_history, d1), 365)
                       /\ r2.state.demand_history = LastN(Append(state.demand_history, d2), 365)
    /\ Transition =>
           last.step.metrics.sold + last.step.metrics.stockout = Max(0, last.demand)

C6_Witness ==
    /\ Transition
    /\ t = 2
    /\ demand_log = <<4, 4>>
    /\ order_log = <<0, 10>>
    /\ cfg.lead_time_days = 0
    /\ totals.stockout = 4
    /\ last.step.metrics.sold = 4
    /\ last.step.metrics.stockout = 0
    /\ last.step.metrics.on_hand_end = 6

----------------------------------------------------------------------------
(* The base-stock order rule (SpecPolicy) *)

position(st) == on_hand_total(st) + SumSeq(st.pipeline)

\* the forecast target of the named policy
TargetOf(name, st, c) ==
    CASE name = "baseline_ma_base_stock" -> ma_target(st, c)
      [] name = "baseline_ewma_base_stock" -> ewma_target(st, c)
      [] name = "cq_base_stock" -> cq_target(st, c)

\* C7: on every state run_episode hands to a policy, each of the three
\* policies returns max(0, target - (on_hand_total + sum(pipeline))) for its
\* own forecast target: the quantity is never negative, it is 0 when the
\* inventory position is at or above the target, and otherwise position plus
\* order is exactly the target; the order the episode places is the
\* configured policy's.
C7_BaseStockRule ==
    last.acted =>
        LET st == last.policy_arg
            c == config.policy.pcfg
        IN  /\ \A name \in PolicyNames :
                   LET q == PolicyFn([name |-> name, pcfg |-> c], st)
                       target == TargetOf(name, st, c)
                   IN  /\ q = Max(0, target - position(st))
                       /\ q >= 0
                       /\ position(st) >= target => q = 0
                       /\ position(st) < target => position(st) + q = target
            /\ last.order = PolicyFn(config.policy, st)

\* a policy orders nothing because the position is at or above a positive
\* target, after a day on which it ordered up to a target
C7_Witness ==
    /\ last.acted
    /\ pc = "loop"
    /\ TargetOf(config.policy.name, last.policy_arg, config.policy.pcfg) > 0
    /\ position(last.policy_arg)
           >= TargetOf(config.policy.name, last.policy_arg, config.policy.pcfg)
    /\ last.order = 0
    /\ \E i \in 1..Len(order_log) : order_log[i] > 0

----------------------------------------------------------------------------
(* Determinism of the episodes main runs (SpecMain) *)

EpisodeFields ==
    {"total_demand", "total_sold", "total_stockout", "total_wasted",
     "total_received", "total_cost"}

\* C10: two episodes run with the same seed, each with a demand generator
\* built afresh from the same configuration and seed, the same policy and the
\* same SimConfig, have the same EpisodeResult, field by field.
C10_Determinism ==
    pc \in {"seed", "loop", "exit"} =>
        \A i, j \in 1..Len(out) :
            out[i].seed = out[j].seed =>
                \A f \in EpisodeFields : out[i].metrics[f] = out[j].metrics[f]

\* two episodes of the same seed have run to the end, with demand and orders
C10_Witness ==
    /\ pc = "exit"
    /\ Len(out) = 2
    /\ out[1].seed = out[2].seed
    /\ out[1].metrics.total_demand > 0
    /\ out[1].metrics.total_received > 0

----------------------------------------------------------------------------
(* SpecResult: the derived rates of any EpisodeResult, as summarize reads *)
(* them                                                                   *)

MaxTotal == 3

\* the totals an episode can end with: total_demand is negative when the
\* demand function returned negative numbers (line 237 adds them as they are)
EpisodeResults ==
    [total_demand : -1..MaxTotal, total_sold : {0},
     total_stockout : 0..MaxTotal, total_wasted : 0..MaxTotal,
     total_received : 0..MaxTotal, total_cost : {0}]

InitResult ==
    /\ config = CallableConfig
    /\ cfg \in {c \in ValidSimConfigs : c.shelf_life_days = 1 /\ c.lead_time_days = 0}
    /\ seeds = <<>>
    /\ seed_pos = 0
    /\ out = <<>>
    /\ rng = IdleRng
    /\ heap = NoHeap
    /\ state = InitialState(cfg)
    /\ totals = ZeroTotals
    /\ t = 0
    /\ pc = "result"
    /\ result \in EpisodeResults
    /\ last = NoLast
    /\ demand_log = <<>>
    /\ order_log = <<>>
    /\ recv_log = <<>>

\* summarize(result): both properties are read (lines 77-78)
Summarize ==
    /\ pc = "result"
    /\ out' = <<OutputRecord(0, result)>>
    /\ pc' = "summarized"
    /\ UNCHANGED <<heap, config, cfg, seeds, seed_pos, rng, episode>>

NextResult == Summarize

SpecResult == InitResult /\ [][NextResult]_vars

Abs(x) == IF x < 0 THEN 0 - x ELSE x

\* v, in parts per million, is the quotient num / den (to the last digit kept)
RateIs(v, num, den) == den # 0 /\ Abs(v * den - num * 1000000) < Abs(den)

----------------------------------------------------------------------------
(* The output file of main (SpecMain) *)

\* the output file has been opened by this run
Opened == pc \in {"seed", "loop", "raised", "exit"}

\* C12: a run of main that completes has written exactly one record per entry
\* of the parsed seed list, duplicates included, in input order, the i-th line
\* carrying the i-th seed; the file was opened for overwrite, so no line of an
\* earlier file remains once it is open, and while the run goes on the lines
\* are those of the seeds done so far.
C12_OutputOrder ==
    /\ Opened =>
           /\ \A i \in 1..Len(out) : out[i] # OldLine
           /\ Len(out) = seed_pos
           /\ \A i \in 1..Len(out) : out[i].seed = seeds[i]
    /\ pc = "exit" => Len(out) = Len(seeds)

\* a completed run over two seeds given in descending order, on a path that
\* held an earlier line
C12_Witness ==
    /\ pc = "exit"
    /\ seeds = <<1, 0>>
    /\ Len(out) = 2
    /\ out[1].seed = 1
    /\ out[2].seed = 0

\* the configuration names a demand model or a policy that does not exist
UnknownVariant ==
    \/ build_demand_fn(config.demand_model, 0).err # "none"
    \/ build_policy_fn(config.policy) # "none"

\* C13: whatever the seed list, also the empty one, a configuration with an
\* unknown demand_model.type or policy.name is rejected before the output
\* file is opened, before a record is written and before an episode is
\* simulated: the file keeps what it held and the run never goes past
\* configuration.
C13_UnknownVariantFailsFast ==
    UnknownVariant =>
        /\ pc \in {"main", "failed"}
        /\ out = <<OldLine>>
        /\ ~last.acted

----------------------------------------------------------------------------
(* The preconditions of step_inventory (SpecStep, and Spec for the episode) *)

\* C14: every call of step_inventory on a state whose on_hand_by_age has not
\* shelf_life_days buckets raises ValueError: no next state and no metrics are
\* returned, the input state is as it was, and an episode in which it happens
\* ends there with no result.
C14_LengthMismatch ==
    (last.acted /\ Len(last.pre.on_hand_by_age) # cfg.shelf_life_days) =>
        /\ pc = "raised"
        /\ last.step.err = "ValueError"
        /\ last.step.metrics = NoMetrics
        /\ last.step.state = last.pre
        /\ state = last.pre
        /\ totals = ZeroTotals
        /\ result = NoResult

\* a call with two buckets for a shelf life of three has raised, after the
\* receipt and the new pipeline were computed from a pipeline with stock
C14_Witness ==
    /\ pc = "raised"
    /\ last.step.err = "ValueError"
    /\ last.pre.on_hand_by_age = <<1, 5>>
    /\ cfg.shelf_life_days = 3
    /\ cfg.lead_time_days = 2
    /\ last.pre.pipeline = <<5, 0>>
    /\ last.order = 10

----------------------------------------------------------------------------
(* Malformed configuration (SpecMain) *)

\* a history window or a horizon that is not positive, or a service level
\* outside (0, 1)
MalformedConfig ==
    \/ config.policy.pcfg.history_window <= 0
    \/ cfg.horizon_days <= 0
    \/ ~(0 < config.policy.pcfg.service_level_target
           /\ config.policy.pcfg.service_level_target < 1000000)

\* C15: a configuration with a non-positive history window, a non-positive
\* horizon or a service level outside (0, 1) is rejected when the policy and
\* the simulation configuration are built: the run never goes past that point,
\* no policy call or transition happens and no result or record is produced.
C15_InvalidConfigRejected ==
    MalformedConfig =>
        /\ pc \in {"main", "failed"}
        /\ ~last.acted
        /\ out = <<OldLine>>

----------------------------------------------------------------------------
(* Failed episodes (SpecMain) *)

\* the episode of seeds[seed_pos + 1] has failed: its generator could not be
\* built, or a transition raised
EpisodeFailed ==
    \/ pc = "raised"
    \/ pc = "failed" /\ build_policy_fn(config.policy) = "none"
    \/ last.acted /\ last.step.err # "none"

\* C16: when the episode of a seed fails, the error ends the run there (it is
\* not swallowed), no record of that seed is written, and the records written
\* are exactly those of the seeds before it in the list, in order.
C16_NoRecordForFailedEpisode ==
    EpisodeFailed =>
        /\ pc \in {"raised", "failed"}
        /\ seed_pos < Len(seeds)
        /\ Len(out) = seed_pos
        /\ \A i \in 1..Len(out) : out[i].seed = seeds[i] /\ out[i] # OldLine
        /\ result = NoResult

\* the first of two episodes raised in its first transition, after the demand
\* was drawn and the policy had ordered
C16_Witness ==
    /\ pc = "raised"
    /\ Len(seeds) = 2
    /\ last.acted
    /\ last.step.err = "IndexError"
    /\ last.policy_calls = 1
    /\ out = <<>>

----------------------------------------------------------------------------
(* Seed independence (SpecMain) *)

\* run_episode as a function of its arguments: the days from `day` on, from
\* state st, totals tot and generator stream gen
RECURSIVE RunDays(_, _, _, _, _, _)
RunDays(conf, c, st, tot, day, gen) ==
    IF day >= c.horizon_days THEN [err |-> "none", result |-> EpisodeResult(tot)]
    ELSE LET d == DemandFn(conf.demand_model, c.horizon_days, day, gen)
             order_qty == PolicyFn(conf.policy, PolicyInput(st, d.value))
             r == step_inventory(st, d.value, order_qty,
                                 c.shelf_life_days, c.lead_time_days, c.costs)
         IN  IF r.err # "none" THEN [err |-> r.err, result |-> NoResult]
             ELSE RunDays(conf, c, r.state,
                          Accumulate(tot, r.metrics, PreReceived(st, order_qty, c)),
                          day + 1, d.rng)

\* the episode of one seed run on its own: a generator built for the seed, a
\* new state, totals at zero
run_episode(conf, c, seed) ==
    RunDays(conf, c, InitialState(c), ZeroTotals, 0,
            build_demand_fn(conf.demand_model, seed).rng)

----------------------------------------------------------------------------
(* SpecHeap: step_inventory and the policies called on InventoryState      *)
(* objects whose lists are kept by address, so that two states can share a *)
(* list and a write through one reference shows through the other         *)

\* the demands and orders of the calls
HeapDemands == {0, 4}
HeapOrders == {-1, 10}

\* the InventoryState value an object holds now
Deref(h, o) ==
    [day |-> o.day, on_hand_by_age |-> h.lists[o.on_hand_by_age],
     pipeline |-> h.lists[o.pipeline], demand_history |-> h.lists[o.demand_history]]

\* the list at address a set to v (addresses are given out in order)
Store(lists, a, v) ==
    [x \in 1..Max(Len(lists), a) |->
        IF x = a THEN v ELSE IF x <= Len(lists) THEN lists[x] ELSE <<>>]

\* the local on_hand_by_age bound to the caller's own list
BucketsList_InPlace(h, o) == o.on_hand_by_age

\* the list the local on_hand_by_age names when lines 160-167 write into it:
\* a new one (list(...) at line 143, [1:] + [0] at line 157)
BucketsList(h, o) == Len(h.lists) + 1

\* the list the next state's pipeline is: pipeline[1:] + [...] or [] (148, 181)
PipelineList(h, o) == Len(h.lists) + 2

\* the list next_history is: (... + [...])[-365:] (line 176)
HistoryList(h, o) == Len(h.lists) + 3

\* what a policy call leaves of the heap: the policies slice, read and sort
\* copies (policies.py 41, 48, 57-83) and write to no list of the state
PolicyHeap(h, o, name) == h

InitHeap ==
    /\ config = CallableConfig
    /\ cfg \in {c \in ValidSimConfigs : c.shelf_life_days = 2 /\ c.lead_time_days <= 1}
    /\ seeds = <<>>
    /\ seed_pos = 0
    /\ out = <<>>
    /\ rng = IdleRng
    /\ state = InitialState(cfg)
    /\ heap = [lists |-> <<state.on_hand_by_age, state.pipeline, state.demand_history>>,
               states |-> <<[day |-> 0, on_hand_by_age |-> 1, pipeline |-> 2,
                             demand_history |-> 3]>>,
               snaps |-> <<state>>]
    /\ totals = ZeroTotals
    /\ t = 0
    /\ pc = "heap"
    /\ result = NoResult
    /\ last = NoLast
    /\ demand_log = <<>>
    /\ order_log = <<>>
    /\ recv_log = <<>>

\* step_inventory called on any state object made so far
CallStepHeap ==
    /\ pc = "heap"
    /\ t < cfg.horizon_days
    /\ \E i \in 1..Len(heap.states), demand \in HeapDemands, order_qty \in HeapOrders :
           LET o == heap.states[i]
               r == step_inventory(Deref(heap, o), demand, order_qty,
                                   cfg.shelf_life_days, cfg.lead_time_days, cfg.costs)
               next_state == [day |-> r.state.day,
                              on_hand_by_age |-> BucketsList(heap, o),
                              pipeline |-> PipelineList(heap, o),
                              demand_history |-> HistoryList(heap, o)]
               lists == Store(Store(Store(heap.lists,
                                          next_state.on_hand_by_age, r.state.on_hand_by_age),
                                    next_state.pipeline, r.state.pipeline),
                              next_state.demand_history, r.state.demand_history)
           IN  IF r.err # "none"
               THEN pc' = "raised" /\ UNCHANGED <<heap, t>>
               ELSE /\ heap' = [lists |-> lists,
                                states |-> Append(heap.states, next_state),
                                snaps |-> Append(heap.snaps, r.state)]
                    /\ t' = t + 1
                    /\ pc' = pc
    /\ UNCHANGED <<config, cfg, seeds, seed_pos, out, rng, state, totals, result, last,
                   demand_log, order_log, recv_log>>

\* one of the three policies called on any state object made so far
CallPolicyHeap ==
    /\ pc = "heap"
    /\ \E i \in 1..Len(heap.states), name \in PolicyNames :
           LET o == heap.states[i]
           IN  /\ last' = [NoLast EXCEPT !.acted = TRUE, !.policy_arg = Deref(heap, o),
                                         !.order = PolicyFn([name |-> name,
                                                             pcfg |-> config.policy.pcfg],
                                                            Deref(heap, o))]
               /\ heap' = PolicyHeap(heap, o, name)
    /\ UNCHANGED <<config, cfg, seeds, seed_pos, out, rng, state, totals, t, pc, result,
                   demand_log, order_log, recv_log>>

NextHeap == CallStepHeap \/ CallPolicyHeap

SpecHeap == InitHeap /\ [][NextHeap]_vars

\* the addresses of the lists of a state object
ListsOf(o) == {o.on_hand_by_age, o.pipeline, o.demand_history}

\* C18: step_inventory and the three policies never modify the InventoryState
\* they are given, and the state step_inventory returns shares no list with
\* an earlier state: every state object still holds the day, buckets,
\* pipeline and history it was made with, whatever calls came later.
C18_InputStateUntouched ==
    pc \in {"heap", "raised"} =>
        /\ \A j \in 1..Len(heap.states) : Deref(heap, heap.states[j]) = heap.snaps[j]
        /\ \A j, l \in 1..Len(heap.states) :
               j # l => ListsOf(heap.states[j]) \cap ListsOf(heap.states[l]) = {}
        /\ \A j \in 1..Len(heap.states) : Cardinality(ListsOf(heap.states[j])) = 3

\* a second state with stock and a third made from it exist, the first state
\* is still the initial one, and a policy was called on the third
C18_Witness ==
    /\ pc = "heap"
    /\ Len(heap.states) = 3
    /\ SumSeq(Deref(heap, heap.states[2]).on_hand_by_age) > 0
    /\ Deref(heap, heap.states[3]).demand_history = <<0, 4>>
    /\ Deref(heap, heap.states[1]) = InitialState(cfg)
    /\ last.acted
    /\ last.policy_arg = Deref(heap, heap.states[3])

----------------------------------------------------------------------------
(* SpecQuantile: inv_norm_cdf and approx_poisson_quantile called on any    *)
(* mean and service level                                                  *)

MaxMeanSteps == 40

\* means in ten-thousandths: 0, 0.0001, quarters up to MaxMeanSteps / 4, 25, 100
Means == {0, 1, 250000, 1000000} \cup {j * 2500 : j \in 1..MaxMeanSteps}

\* service levels and probabilities in parts per million, also outside (0, 1)
ServiceLevels == DOMAIN InvNormTable \cup {-500000, 0, 1000000, 1500000}

InitQuantile ==
    /\ config = CallableConfig
    /\ cfg \in {c \in ValidSimConfigs : c.shelf_life_days = 1 /\ c.lead_time_days = 0}
    /\ seeds = <<>>
    /\ seed_pos = 0
    /\ out = <<>>
    /\ rng = IdleRng
    /\ heap = NoHeap
    /\ state = InitialState(cfg)
    /\ totals = ZeroTotals
    /\ t = 0
    /\ pc = "call"
    /\ result = NoResult
    /\ last \in [acted : {FALSE}, call : {"none"}, mu : Means,
                 service_level : ServiceLevels, quantile : {0}, z : {0}, err : {"none"}]
    /\ demand_log = <<>>
    /\ order_log = <<>>
    /\ recv_log = <<>>

\* approx_poisson_quantile(mu, service_level)
CallQuantile ==
    /\ pc = "call"
    /\ LET err == approx_poisson_quantile_raises(last.mu, last.service_level)
       IN  /\ last' = [last EXCEPT !.acted = TRUE, !.call = "approx_poisson_quantile",
                                   !.err = err,
                                   !.quantile = IF err = "none"
                                                THEN approx_poisson_quantile(last.mu,
                                                                             last.service_level)
                                                ELSE 0]
           /\ pc' = IF err = "none" THEN "returned" ELSE "raised"
    /\ UNCHANGED <<heap, config, cfg, seeds, seed_pos, out, rng, state, totals, t, result,
                   demand_log, order_log, recv_log>>

\* inv_norm_cdf(p), p being the service level
CallInvNorm ==
    /\ pc = "call"
    /\ LET r == inv_norm_cdf(last.service_level)
       IN  /\ last' = [last EXCEPT !.acted = TRUE, !.call = "inv_norm_cdf",
                                   !.err = r.err, !.z = r.z]
           /\ pc' = IF r.err = "none" THEN "returned" ELSE "raised"
    /\ UNCHANGED <<heap, config, cfg, seeds, seed_pos, out, rng, state, totals, t, result,
                   demand_log, order_log, recv_log>>

NextQuantile == CallQuantile \/ CallInvNorm

SpecQuantile == InitQuantile /\ [][NextQuantile]_vars

\* C19: approx_poisson_quantile is non-decreasing in the service level for
\* every fixed mean >= 0 and non-decreasing in the mean for every fixed
\* service level, also below 0.5 where z is negative and the result is
\* floored at 0; it is never negative and is 0 for mean 0.
C19_QuantileMonotone ==
    (last.acted /\ last.call = "approx_poisson_quantile") =>
        /\ pc = "returned"
        /\ last.quantile >= 0
        /\ last.mu = 0 => last.quantile = 0
        /\ \A s \in ServiceLevels :
               last.service_level <= s =>
                   last.quantile <= approx_poisson_quantile(last.mu, s)
        /\ \A m \in Means :
               last.mu <= m =>
                   last.quantile <= approx_poisson_quantile(m, last.service_level)

\* at service level 0.05 the quantile of mean 1 is floored at 0 (1 - 1.645 is
\* negative) and that of mean 25 is positive
C19_Witness ==
    /\ pc = "returned"
    /\ last.call = "approx_poisson_quantile"
    /\ last.service_level = 50000
    /\ last.mu = 10000
    /\ last.quantile = 0
    /\ approx_poisson_quantile(250000, 50000) = 17
    /\ approx_poisson_quantile(10000, 950000) = 3

\* C20: inv_norm_cdf raises ValueError for every p <= 0 and every p >= 1 and
\* returns a value for every 0 < p < 1, which is 0.0 at p = 0.5;
\* approx_poisson_quantile clamps the service level into [1e-6, 0.999999]
\* before the call and never fails, whatever the service level.
C20_QuantileDomain ==
    last.acted =>
        /\ last.call = "inv_norm_cdf" =>
               /\ (last.service_level <= 0 \/ last.service_level >= 1000000)
                      => (pc = "raised" /\ last.err = "ValueError")
               /\ (0 < last.service_level /\ last.service_level < 1000000)
                      => (pc = "returned" /\ last.err = "none")
               /\ last.service_level = 500000 => last.z = 0
        /\ last.call = "approx_poisson_quantile" =>
               /\ pc = "returned"
               /\ last.err = "none"
               /\ last.service_level <= 0 =>
                      last.quantile = approx_poisson_quantile(last.mu, 1)
               /\ last.service_level >= 1000000 =>
                      last.quantile = approx_poisson_quantile(last.mu, 999999)

\* approx_poisson_quantile has returned for a positive mean and the service
\* level 1.5, on which inv_norm_cdf itself raises
C20_Witness ==
    /\ pc = "returned"
    /\ last.call = "approx_poisson_quantile"
    /\ last.service_level = 1500000
    /\ last.mu = 10000
    /\ last.quantile = 6
    /\ inv_norm_cdf(last.service_level).err = "ValueError"

----------------------------------------------------------------------------
(* A forecast of zero (SpecPolicy) *)

\* history windows and service levels a PolicyConfig may hold
HistoryWindows == {0, 1, 2, 28}

\* the moving-average window of hist is empty or holds zeros only
ZeroWindow(hist, history_window) ==
    \A i \in 1..Len(LastN(hist, Max(1, history_window))) :
        LastN(hist, Max(1, history_window))[i] = 0

\* C21: on every state an episode hands to its policy, whenever the demand
\* history is empty or the last history_window entries are all 0,
\* baseline_ma_base_stock orders 0, for every service level, every window and
\* whatever the inventory position; history [0] with window 1 and service
\* level 0.5 is one such case.
C21_ZeroForecastOrdersNothing ==
    last.acted =>
        \A w \in HistoryWindows, s \in ServiceLevels :
            LET c == [DefaultPolicyConfig EXCEPT !.history_window = w,
                                                 !.service_level_target = s]
                st == last.policy_arg
            IN  ZeroWindow(st.demand_history, w) =>
                    /\ mean(LastN(st.demand_history, Max(1, w))) = 0
                    /\ ma_target(st, c) = 0
                    /\ baseline_ma_base_stock(st, c) = 0

\* the moving average with window 1 and service level 0.5 sees a history
\* ending in 0 while 10 units are on hand or on order, and orders nothing
C21_Witness ==
    /\ last.acted
    /\ config.policy.name = "baseline_ma_base_stock"
    /\ config.policy.pcfg.history_window = 1
    /\ config.policy.pcfg.service_level_target = 500000
    /\ last.policy_arg.demand_history = <<10, 0>>
    /\ position(last.policy_arg) = 10
    /\ last.order = 0

----------------------------------------------------------------------------
(* Negative orders (Spec) *)

NegativeOrders == {-10, -1}

\* C22: at every state of an episode, for every demand, step_inventory with a
\* negative order returns the next state and metrics it returns with order 0,
\* and run_episode counts the receipt it counts with order 0; after a day
\* with a negative order no bucket, no pipeline entry and no total_received
\* is lower than an order of 0 leaves it, and none is negative.
C22_NegativeOrderClamped ==
    /\ pc = "loop" =>
           \A q \in NegativeOrders, d \in Demands :
               /\ step_inventory(state, d, q, cfg.shelf_life_days, cfg.lead_time_days,
                                 cfg.costs)
                      = step_inventory(state, d, 0, cfg.shelf_life_days,
                                       cfg.lead_time_days, cfg.costs)
               /\ PreReceived(state, q, cfg) = PreReceived(state, 0, cfg)
    /\ (Transition /\ last.order_qty < 0) =>
           /\ last.step = step_inventory(last.pre, last.demand, 0, cfg.shelf_life_days,
                                         cfg.lead_time_days, cfg.costs)
           /\ last.pre_received = PreReceived(last.pre, 0, cfg)
           /\ totals.received >= 0
           /\ \A i \in 1..Len(state.pipeline) : state.pipeline[i] >= 0
           /\ \A i \in 1..Len(state.on_hand_by_age) : state.on_hand_by_age[i] >= 0

\* with stock on hand and an order on its way, the policy returned -1: the
\* stock and the pipeline entry are still there and nothing was received
C22_Witness ==
    /\ Transition
    /\ last.order_qty = -1
    /\ cfg.lead_time_days = 1
    /\ last.pre.pipeline = <<0>>
    /\ SumSeq(last.pre.on_hand_by_age) = 10
    /\ last.demand = 0
    /\ state.pipeline = <<0>>
    /\ SumSeq(state.on_hand_by_age) + last.step.metrics.wasted = 10
    /\ last.pre_received = 0

----------------------------------------------------------------------------
(* Costs (Spec) *)

\* cost rates in hundredths: the defaults, none, and rates of 2.50, 0.01, 0.33
CostRates ==
    {DefaultCosts,
     [waste_cost |-> 0, stockout_cost |-> 0, holding_cost |-> 0],
     [waste_cost |-> 250, stockout_cost |-> 1, holding_cost |-> 33]}

\* the ending on-hand totals of the days logged so far, summed: the days are
\* replayed from the initial state with the logged demands and orders
RECURSIVE HeldOver(_, _, _)
HeldOver(st, i, acc) ==
    IF i > Len(demand_log) THEN acc
    ELSE LET r == step_inventory(st, demand_log[i], order_log[i],
                                 cfg.shelf_life_days, cfg.lead_time_days, cfg.costs)
         IN  HeldOver(r.state, i + 1, acc + r.metrics.on_hand_end)

----------------------------------------------------------------------------
(* The demand history (Spec) *)

\* the history after a transition is the one before it with the day's demand
\* appended, cut to its last 365 entries; in an episode it is the most
\* recent demands in order, min(n, 365) of them after n transitions
SlidingWindow ==
    /\ Transition =>
           state.demand_history
               = LastN(Append(last.pre.demand_history, last.demand), HistoryCap)
    /\ pc \in {"loop", "done"} =>
           /\ Len(state.demand_history) = Min(t, HistoryCap)
           /\ state.demand_history = LastN(demand_log, HistoryCap)

\* C24: demand_history is a sliding window of the most recent demands, most
\* recent last, at most 365 long, and every entry of it is a non-negative
\* integer.
C24_DemandHistory ==
    /\ SlidingWindow
    /\ \A i \in 1..Len(state.demand_history) : state.demand_history[i] >= 0

----------------------------------------------------------------------------
(* SpecWarmup: run_episode under configurations that differ in warmup_days *)

\* no warmup, one day, and more days than the horizon
WarmupDays == {0, 1, MaxHorizon + 1}

InitWarmup ==
    /\ config = CallableConfig
    /\ cfg \in {[c EXCEPT !.warmup_days = w] :
                   c \in {v \in ValidSimConfigs : v.shelf_life_days = 2
                                                  /\ v.lead_time_days <= 1},
                   w \in WarmupDays}
    /\ pc = "loop"
    /\ EpisodeStart

SpecWarmup == InitWarmup /\ [][Next]_vars

\* the totals of the days logged so far under SimConfig c: the days are
\* replayed from state st with the logged demands and orders
RECURSIVE ReplayTotals(_, _, _, _)
ReplayTotals(c, st, tot, i) ==
    IF i > Len(demand_log) THEN tot
    ELSE LET r == step_inventory(st, demand_log[i], order_log[i],
                                 c.shelf_life_days, c.lead_time_days, c.costs)
         IN  ReplayTotals(c, r.state,
                          Accumulate(tot, r.metrics, PreReceived(st, order_log[i], c)),
                          i + 1)

\* C25: an episode's totals and result are those of the same days under any
\* other warmup_days, and every day of the horizon, the first warmup_days
\* days included, is in the totals.
C25_WarmupHasNoEffect ==
    pc \in {"loop", "done"} =>
        /\ \A w \in WarmupDays :
               LET other == [cfg EXCEPT !.warmup_days = w]
                   tot == ReplayTotals(other, InitialState(other), ZeroTotals, 1)
               IN  /\ totals = tot
                   /\ pc = "done" => result = EpisodeResult(tot)
        /\ Len(demand_log) = t
        /\ totals.demand = SumSeq(demand_log)
        /\ pc = "done" => t = cfg.horizon_days

\* an episode whose warmup is longer than its horizon has ended, and the
\* demand, stockout and receipt of its first day are in the result
C25_Witness ==
    /\ pc = "done"
    /\ cfg.warmup_days = MaxHorizon + 1
    /\ cfg.lead_time_days = 0
    /\ demand_log[1] = 10
    /\ order_log[1] = 1
    /\ \A i \in 2..Len(demand_log) : demand_log[i] = 0 /\ order_log[i] = 0
    /\ result.total_demand = 10
    /\ result.total_stockout = 9
    /\ result.total_received = 1

----------------------------------------------------------------------------
(* The fallback of the calibrated policy (SpecPolicy) *)

ResidualWindows == {0, 1, 60}

\* policy configurations over the windows, three service levels and three
\* smoothing factors
FallbackConfigs ==
    [service_level_target : {50000, 500000, 950000}, history_window : HistoryWindows,
     ewma_alpha : {0, 200, 1000}, residual_window : ResidualWindows]

\* C26: on every state an episode hands to its policy whose demand history
\* has fewer than two entries, no residual can be formed and cq_base_stock
\* returns the order baseline_ewma_base_stock returns under the same
\* PolicyConfig, for every history_window and residual_window, although the
\* two clamp their windows to different minimums (5 and 2).
C26_CalibratedFallback ==
    (last.acted /\ Len(last.policy_arg.demand_history) < 2) =>
        \A c \in FallbackConfigs :
            LET st == last.policy_arg
            IN  /\ Residuals(st.demand_history, Max(5, c.history_window),
                             Max(10, c.residual_window), c.ewma_alpha) = <<>>
                /\ cq_target(st, c) = ewma_target(st, c)
                /\ cq_base_stock(st, c) = baseline_ewma_base_stock(st, c)

\* the calibrated policy, with one day of demand 10 in the history and
\* nothing on hand or on order, orders what the EWMA policy orders: 15
C26_Witness ==
    /\ last.acted
    /\ config.policy.name = "cq_base_stock"
    /\ config.policy.pcfg = DefaultPolicyConfig
    /\ last.policy_arg.demand_history = <<10>>
    /\ position(last.policy_arg) = 0
    /\ last.order = 15
    /\ baseline_ewma_base_stock(last.policy_arg, config.policy.pcfg) = 15

----------------------------------------------------------------------------
(* SpecPoisson: sample_poisson called again and again on one stream *)

MaxDraws == 6

\* rates in ten-thousandths: -3, 0, 0.5, 2, 49.9999, 50, 50.5, 52, 100, 400
Rates == {-30000, 0, 5000, 20000, 499999, 500000, 505000, 520000, 1000000, 4000000}

StreamSeeds == 0..6

InitPoisson ==
    /\ config = CallableConfig
    /\ cfg \in {c \in ValidSimConfigs : c.shelf_life_days = 1 /\ c.lead_time_days = 0}
    /\ seeds = <<>>
    /\ seed_pos = 0
    /\ out = <<>>
    /\ \E s \in StreamSeeds : rng = [IdleRng EXCEPT !.gen = NewRandom(s)]
    /\ heap = NoHeap
    /\ state = InitialState(cfg)
    /\ totals = ZeroTotals
    /\ t = 0
    /\ pc = "call"
    /\ result = NoResult
    /\ last = [acted |-> FALSE, lam |-> 0, before |-> NewRandom(0), value |-> 0]
    /\ demand_log = <<>>
    /\ order_log = <<>>
    /\ recv_log = <<>>

\* sample_poisson(lam, rng)
CallPoisson ==
    /\ pc = "call"
    /\ rng.gen.pos < MaxDraws
    /\ \E lam \in Rates :
         LET r == sample_poisson(lam, rng.gen)
         IN  /\ last' = [acted |-> TRUE, lam |-> lam, before |-> rng.gen, value |-> r.value]
             /\ rng' = [rng EXCEPT !.gen = r.rng]
    /\ UNCHANGED <<heap, config, cfg, seeds, seed_pos, out, state, totals, t, pc, result,
                   demand_log, order_log, recv_log>>

NextPoisson == CallPoisson

SpecPoisson == InitPoisson /\ [][NextPoisson]_vars

\* C27: for every rate >= 50 sample_poisson returns max(0, x rounded to the
\* nearest integer) for its single normal draw x; for rate 0 it returns 0
\* without taking a draw.
C27_LargeRateRounds ==
    last.acted =>
        /\ last.lam >= 50 * Unit =>
             /\ rng.gen = Advance(last.before)
             /\ last.value = Max(0, PyRound(gauss(last.lam, last.before), Unit))
        /\ last.lam = 0 => (last.value = 0 /\ rng.gen = last.before)

\* what the code does hold to: the draw truncated toward zero, one draw for a
\* rate >= 50, none for a rate <= 0, and Knuth's loop below 50
C27_LargeRateTruncates ==
    last.acted =>
        /\ last.lam >= 50 * Unit =>
             /\ rng.gen = Advance(last.before)
             /\ last.value = Max(0, PyInt(gauss(last.lam, last.before), Unit))
        /\ last.lam <= 0 => (last.value = 0 /\ rng.gen = last.before)
        /\ (0 < last.lam /\ last.lam < 50 * Unit) =>
             (rng.gen.pos = last.before.pos + last.value + 1)

----------------------------------------------------------------------------
(* Shelf-life timing (Spec) *)

\* the units that entered stock in the transition of day d of this episode
Arrived(d) == IF 0 <= d /\ d < Len(recv_log) THEN recv_log[d + 1] ELSE 0

\* the day on which the units of bucket j arrived, after n transitions
ArrivalDay(j, n) == (n - 1) - (cfg.shelf_life_days - j)

\* C28: a unit added to the freshest bucket in the transition of day d can be
\* sold only in the transitions of days d .. d + shelf_life_days - 1 and, if
\* still unsold, is counted as wasted exactly in the transition of day
\* d + shelf_life_days.  After n transitions bucket j holds nothing but what
\* is left of the receipt of day n - 1 - (shelf_life_days - j), so the receipt
\* of day d is on the shelf after the transitions of days d .. d + shelf_life_days - 1
\* only, one bucket older each day; a transition sells from the shelf as it
\* stands after aging and receipt, bucket by bucket, and wastes the whole of
\* what was left in the oldest bucket, the receipt of shelf_life_days days before.
C28_ShelfLifeTiming ==
    /\ \A j \in 1..Len(state.on_hand_by_age) :
         /\ 0 <= state.on_hand_by_age[j]
         /\ state.on_hand_by_age[j] <= Arrived(ArrivalDay(j, Len(recv_log)))
    /\ Transition =>
         LET n == Len(recv_log)
             pre == last.pre.on_hand_by_age
             post == last.step.state.on_hand_by_age
             m == last.step.metrics
         IN  /\ m.wasted = pre[1]
             /\ m.wasted <= Arrived(n - 1 - cfg.shelf_life_days)
             /\ Len(post) = Len(pre)
             /\ \A j \in 1..Len(post) :
                  /\ post[j] <= BeforeSale[j]
                  /\ j < Len(post) => BeforeSale[j] = pre[j + 1]
             /\ BeforeSale[Len(post)] = Arrived(n - 1)
             /\ m.sold = SumSeq(BeforeSale) - SumSeq(post)

\* shelf life 2: ten units arrive on day 0, four are sold on day 0, none on
\* day 1, and the six left are wasted in the transition of day 2
C28_Witness ==
    /\ Transition
    /\ cfg.shelf_life_days = 2
    /\ Len(recv_log) = 3
    /\ recv_log[1] = 10
    /\ demand_log = <<4, 0, 10>>
    /\ recv_log[2] = 0
    /\ last.pre.on_hand_by_age = <<6, 0>>
    /\ last.step.metrics.wasted = 6
    /\ last.step.metrics.sold = recv_log[3]

----------------------------------------------------------------------------
(* Conservation over an episode (Spec) *)

\* the units conserved over a completed episode
EpisodeBalance ==
    /\ result.total_received =
           result.total_sold + result.total_wasted + on_hand_total(state)
    /\ result.total_wasted <= result.total_received
    /\ 0 <= waste_rate(result)
    /\ waste_rate(result) <= 1000000

\* C29: for every completed run_episode, total_received = total_sold +
\* total_wasted + the on-hand total of the final state; hence total_wasted <=
\* total_received and waste_rate lies in [0, 1].
C29_EpisodeConservation == pc = "done" => EpisodeBalance

\* the balance of the episodes whose lead time is not negative
C29_BalanceWithLeadTime == (pc = "done" /\ cfg.lead_time_days >= 0) => EpisodeBalance

----------------------------------------------------------------------------
(* Demand accounting (Spec) *)

\* a day's or an episode's demand split into sold and stockout
DemandSplit(demand, sold, stockout) ==
    /\ sold + stockout = demand
    /\ stockout <= demand

\* C30: in every transition, for whatever integer the demand function
\* returns, metrics.sold + metrics.stockout = metrics.demand; over an episode
\* total_sold + total_stockout = total_demand, hence total_stockout <=
\* total_demand and service_level lies in [0, 1].
C30_DemandAccounting ==
    /\ Transition =>
         DemandSplit(last.step.metrics.demand, last.step.metrics.sold,
                     last.step.metrics.stockout)
    /\ pc = "done" =>
         /\ DemandSplit(result.total_demand, result.total_sold, result.total_stockout)
         /\ 0 <= service_level(result)
         /\ service_level(result) <= 1000000

\* the accounting of the days and episodes on which no demand is negative
C30_NonNegativeDemandAccounting ==
    /\ (Transition /\ last.demand >= 0) =>
         DemandSplit(last.step.metrics.demand, last.step.metrics.sold,
                     last.step.metrics.stockout)
    /\ (pc = "done" /\ \A i \in 1..Len(demand_log) : demand_log[i] >= 0) =>
         /\ DemandSplit(result.total_demand, result.total_sold, result.total_stockout)
         /\ 0 <= service_level(result)
         /\ service_level(result) <= 1000000

====
